---------------------------- MODULE Spec2Model ----------------------------
(***************************************************************************)
(* A model of py_win_unc: the NET USE table parser and table model of      *)
(* win_unc/internal/net_use_table.py, and the address parsing functions    *)
(* of win_unc/unc_directory.py as the tests in test/test_unc_directory.py  *)
(* and the specification describe them.                                    *)
(*                                                                         *)
(* A Python string is a sequence of one-character strings.  An optional    *)
(* value (None or a value v) is the sequence <<>> or <<v>>.                *)
(***************************************************************************)
EXTENDS Integers, Sequences, FiniteSets, TLC

VARIABLES
    rows,        \* NetUseTable.rows of the table object
    called,      \* the method of the table object called last
    query,       \* the arguments of the last get_matching_rows call
    matching,    \* the list the last get_matching_rows call returned
    string,      \* the text handed to parse_net_use_table
    pc,          \* where the call of parse_net_use_table stands
    columns,     \* what get_columns returned during the call
    outcome,     \* how the call ended: a table returned, or the error raised
    unc_string,  \* the string handed to the address functions
    upc,         \* which address function has run
    creds,       \* the UncCredentials get_creds_from_string returned
    directory,   \* the UncDirectory get_unc_directory_from_string returned
    normalized   \* the results of successive get_normalized_path calls

vars == <<rows, called, query, matching, string, pc, columns, outcome,
          unc_string, upc, creds, directory, normalized>>

table_vars == <<rows, called, query, matching>>
parse_vars == <<string, pc, columns, outcome>>
unc_vars == <<unc_string, upc, creds, directory, normalized>>

(***************************************************************************)
(* Bounds of the model.                                                    *)
(***************************************************************************)
MaxRows == 2
MaxLines == 4
MaxChunks == 4

(***************************************************************************)
(* Python values.                                                          *)
(***************************************************************************)
None == <<>>
Some(v) == <<v>>

\* Python's truth value of an optional string: None and '' are both false.
Truthy(opt) == opt # None /\ opt[1] # <<>>

Min(S) == CHOOSE x \in S : \A y \in S : x <= y
Max(S) == CHOOSE x \in S : \A y \in S : x >= y

UpperLetters == <<"A", "B", "C", "D", "E", "F", "G", "H", "I", "J", "K", "L", "M",
                  "N", "O", "P", "Q", "R", "S", "T", "U", "V", "W", "X", "Y", "Z">>
LowerLetters == <<"a", "b", "c", "d", "e", "f", "g", "h", "i", "j", "k", "l", "m",
                  "n", "o", "p", "q", "r", "s", "t", "u", "v", "w", "x", "y", "z">>
Whitespace == {" ", "\t", "\n", "\r"}

\* str.isalpha() of one character
isalpha(c) == \E i \in 1..26 : UpperLetters[i] = c \/ LowerLetters[i] = c

lower_char(c) ==
    IF \E i \in 1..26 : UpperLetters[i] = c
    THEN LowerLetters[CHOOSE i \in 1..26 : UpperLetters[i] = c]
    ELSE c

\* str.lower()
lower(s) == IF s = <<>> THEN <<>> ELSE [i \in 1..Len(s) |-> lower_char(s[i])]

\* s[start:end] of Python for start >= 0; end is None, or an index that
\* counts from the end of s when it is negative.
Slice(s, start, end) ==
    LET n == Len(s)
        e0 == IF end = None THEN n
              ELSE IF end[1] < 0 THEN n + end[1]
              ELSE end[1]
        e == IF e0 < 0 THEN 0 ELSE IF e0 > n THEN n ELSE e0
    IN  IF start >= e THEN <<>> ELSE SubSeq(s, start + 1, e)

\* str.rstrip(chars)
RECURSIVE rstrip_chars(_, _)
rstrip_chars(s, chars) ==
    IF s # <<>> /\ s[Len(s)] \in chars
    THEN rstrip_chars(SubSeq(s, 1, Len(s) - 1), chars)
    ELSE s

\* str.lstrip(chars)
RECURSIVE lstrip_chars(_, _)
lstrip_chars(s, chars) ==
    IF s # <<>> /\ s[1] \in chars THEN lstrip_chars(Tail(s), chars) ELSE s

\* str.rstrip() and str.strip() without arguments
rstrip(s) == rstrip_chars(s, Whitespace)
strip(s) == lstrip_chars(rstrip_chars(s, Whitespace), Whitespace)

\* str.startswith(prefix) and str.endswith(suffix)
startswith(s, prefix) ==
    Len(prefix) <= Len(s) /\ SubSeq(s, 1, Len(prefix)) = prefix
endswith(s, suffix) ==
    Len(suffix) <= Len(s) /\ SubSeq(s, Len(s) - Len(suffix) + 1, Len(s)) = suffix

\* The 0-based offsets at which sub occurs in s
Occurrences(s, sub) ==
    {i \in 0..(Len(s) - Len(sub)) : SubSeq(s, i + 1, i + Len(sub)) = sub}

\* `sub in s`
contains(s, sub) == Occurrences(s, sub) # {}

\* str.index(sub), for a sub that occurs in s
index(s, sub) == Min(Occurrences(s, sub))

\* str.split(sep) for a one-character separator
RECURSIVE split_on(_, _)
split_on(s, sep) ==
    LET at == {i \in 1..Len(s) : s[i] = sep}
    IN  IF at = {} THEN <<s>>
        ELSE <<SubSeq(s, 1, Min(at) - 1)>>
             \o split_on(SubSeq(s, Min(at) + 1, Len(s)), sep)

\* str.split() without arguments: the words between runs of whitespace
RECURSIVE split(_)
split(s) ==
    LET t == lstrip_chars(s, Whitespace)
        ws == {i \in 1..Len(t) : t[i] \in Whitespace}
    IN  IF t = <<>> THEN <<>>
        ELSE IF ws = {} THEN <<t>>
        ELSE <<SubSeq(t, 1, Min(ws) - 1)>> \o split(SubSeq(t, Min(ws), Len(t)))

RECURSIVE Concat(_)
Concat(ss) == IF ss = <<>> THEN <<>> ELSE Head(ss) \o Concat(Tail(ss))

\* sep.join(ss)
RECURSIVE Join(_, _)
Join(ss, sep) ==
    IF ss = <<>> THEN <<>>
    ELSE IF Len(ss) = 1 THEN ss[1]
    ELSE ss[1] \o sep \o Join(Tail(ss), sep)

\* All sequences over S of length lo..hi
SeqsOf(S, lo, hi) == UNION {[1..n -> S] : n \in lo..hi}

(***************************************************************************)
(* NetUseTable: the table model.                                           *)
(***************************************************************************)
IPC == <<"\\", "i", "p", "c", "$">>

drive_letters_equal_nolower(left, right) ==
    rstrip_chars(left, {":"}) = rstrip_chars(right, {":"})

drive_letters_equal(left, right) ==
    lower(rstrip_chars(left, {":"})) = lower(rstrip_chars(right, {":"}))

normalize_remote_path(path) ==
    LET p == lower(path)
    IN  IF endswith(p, IPC) THEN SubSeq(p, Len(p) - 4, Len(p)) ELSE p

remote_paths_equal(left, right) ==
    normalize_remote_path(left) = normalize_remote_path(right)

\* The body of the loop of get_matching_rows for one row
row_matches(row, local, remote, status) ==
    /\ (IF Truthy(local) THEN drive_letters_equal(local[1], row.local) ELSE TRUE)
    /\ (IF Truthy(remote) THEN remote_paths_equal(remote[1], row.remote) ELSE TRUE)
    /\ (IF Truthy(status) THEN lower(status[1]) = lower(row.status) ELSE TRUE)

get_matching_rows(table, local, remote, status) ==
    LET Matches(row) == row_matches(row, local, remote, status)
    IN  SelectSeq(table, Matches)

get_column(table, column) == [i \in 1..Len(table) |-> table[i][column]]

\* The rows handed to add_row, and the criteria handed to get_matching_rows
RowLocals == {<<>>, <<"Z", ":">>}
RowRemotes == {<<"\\", "\\", "a">>, <<"\\", "\\", "b", "\\", "I", "P", "C", "$">>}
RowStatuses == {<<"O", "K">>, <<"D", "i", "s", "c", "o", "n", "n", "e", "c", "t", "e", "d">>}
RowPool == [local : RowLocals, remote : RowRemotes, status : RowStatuses]

LocalCriteria == {None, Some(<<>>), Some(<<"z">>), Some(<<"Z", ":", ":">>)}
RemoteCriteria == {None, Some(<<>>), Some(<<"\\", "\\", "a", "\\", "i", "p", "c", "$">>), Some(<<"\\", "\\", "B">>)}
StatusCriteria == {None, Some(<<>>), Some(<<"o", "k">>)}

NoQuery == [local |-> None, remote |-> None, status |-> None]

TableInit ==
    /\ rows = <<>>
    /\ called = "__init__"
    /\ query = NoQuery
    /\ matching = <<>>

AddRow ==
    /\ Len(rows) < MaxRows
    /\ \E row \in RowPool : rows' = Append(rows, row)
    /\ called' = "add_row"
    /\ query' = NoQuery
    /\ matching' = <<>>
    /\ UNCHANGED <<parse_vars, unc_vars>>

GetMatchingRows ==
    /\ \E local \in LocalCriteria, remote \in RemoteCriteria, status \in StatusCriteria :
          /\ query' = [local |-> local, remote |-> remote, status |-> status]
          /\ matching' = get_matching_rows(rows, local, remote, status)
    /\ called' = "get_matching_rows"
    /\ UNCHANGED <<rows, parse_vars, unc_vars>>

(***************************************************************************)
(* The parser of the output of NET USE.                                    *)
(***************************************************************************)
EMPTY_TABLE_INDICATOR == <<"T", "h", "e", "r", "e", " ", "a", "r", "e", " ", "n", "o", " ", "e", "n", "t", "r", "i", "e", "s", " ", "i", "n", " ", "t", "h", "e", " ", "l", "i", "s", "t", ".">>
LAST_TABLE_LINE == <<"T", "h", "e", " ", "c", "o", "m", "m", "a", "n", "d", " ", "c", "o", "m", "p", "l", "e", "t", "e", "d", " ", "s", "u", "c", "c", "e", "s", "s", "f", "u", "l", "l", "y", ".">>

\* The raw column titles and the standard keys they are renamed to
MAP_RAW_COLUMNS_TO_STANDARD_COLUMNS ==
    (<<"L", "o", "c", "a", "l">> :> "local") @@ (<<"R", "e", "m", "o", "t", "e">> :> "remote") @@ (<<"S", "t", "a", "t", "u", "s">> :> "status")

\* NetUseColumn(name, start, end); end is None or Some(index)
NetUseColumn(name, start, end) == [name |-> name, start |-> start, end |-> end]

\* NetUseColumn.extract
extract(column, str) == strip(Slice(str, column.start, column.end))

\* rekey_dict renames only the keys d holds instead of failing on a missing one.
rekey_dict_lenient(d, key_map) ==
    LET have == {old \in DOMAIN key_map : old \in DOMAIN d}
    IN  [err |-> "none",
         row |-> [new \in {key_map[old] : old \in have} |->
                     d[CHOOSE old \in have : key_map[old] = new]]]

\* rekey_dict: d[old_key] raises KeyError for a key of key_map that d lacks.
rekey_dict(d, key_map) ==
    IF \E old \in DOMAIN key_map : old \notin DOMAIN d
    THEN [err |-> "KeyError", row |-> <<>>]
    ELSE [err |-> "none",
          row |-> [new \in {key_map[old] : old \in DOMAIN key_map} |->
                      d[CHOOSE old \in DOMAIN key_map : key_map[old] = new]]]

is_line_separator(line) == line # <<>> /\ \A i \in 1..Len(line) : line[i] = "-"

\* A predicate handed to a function of the parsing module is the function
\* from the items to its truth values.
Range(items) == {items[i] : i \in 1..Len(items)}

\* parsing.not_
not_(func) == [x \in DOMAIN func |-> ~func[x]]

\* parsing.take_while: the longest prefix of items whose members satisfy predicate
take_while(predicate, items) ==
    LET bad == {i \in 1..Len(items) : ~predicate[items[i]]}
    IN  IF bad = {} THEN items ELSE SubSeq(items, 1, Min(bad) - 1)

\* parsing.drop_while: items without that prefix
drop_while(predicate, items) ==
    LET bad == {i \in 1..Len(items) : ~predicate[items[i]]}
    IN  IF bad = {} THEN <<>> ELSE SubSeq(items, Min(bad), Len(items))

\* parsing.rfirst: the last member of items that satisfies predicate, if any
rfirst(predicate, items) ==
    LET good == {i \in 1..Len(items) : predicate[items[i]]}
    IN  IF good = {} THEN None ELSE Some(items[Max(good)])

\* The predicate get_columns hands to rfirst: x and x[0].isalpha()
is_heading(x) == x # <<>> /\ isalpha(x[1])

\* The predicates over the lines at hand
separator_among(lines) == [x \in Range(lines) |-> is_line_separator(x)]
heading_among(lines) == [x \in Range(lines) |-> is_heading(x)]

\* Lines 146-151 of get_columns: the columns a heading line describes
columns_of(headings) ==
    LET names == split(headings)
        starts == [i \in 1..Len(names) |-> index(headings, names[i])]
        ends == [i \in 1..Len(names) |->
                    IF i < Len(names) THEN Some(starts[i + 1] - 1) ELSE None]
    IN  [i \in 1..Len(names) |-> NetUseColumn(names[i], starts[i], ends[i])]

\* get_columns looks for the heading among all the lines, the body included.
get_columns_all_lines(lines) ==
    LET headings == rfirst(heading_among(lines), lines)
    IN  IF headings = None
        THEN [err |-> "FormatError", columns |-> <<>>]
        ELSE [err |-> "none", columns |-> columns_of(headings[1])]

\* get_columns; it fails when rfirst finds no heading line.
get_columns(lines) ==
    LET header_iter == take_while(not_(separator_among(lines)), lines)
        headings == rfirst(heading_among(header_iter), header_iter)
    IN  IF headings = None
        THEN [err |-> "FormatError", columns |-> <<>>]
        ELSE [err |-> "none", columns |-> columns_of(headings[1])]

\* The predicate of get_body: x and x != LAST_TABLE_LINE
is_last_line(lines) == [x \in Range(lines) |-> x # <<>> /\ x # LAST_TABLE_LINE]

\* get_body stops at the terminator line only.
get_body_to_terminator(lines) ==
    LET bottom == drop_while(not_(separator_among(lines)), lines)
        not_last == [x \in Range(lines) |-> x # LAST_TABLE_LINE]
    IN  IF Len(bottom) > 1 THEN take_while(not_last, Tail(bottom)) ELSE <<>>

get_body(lines) ==
    LET bottom == drop_while(not_(separator_among(lines)), lines)
    IN  IF Len(bottom) > 1 THEN take_while(is_last_line(lines), Tail(bottom)) ELSE <<>>

\* The dictionary {column.name: column.extract(line) for column in columns}:
\* of two columns with one name the later one's value stays.
raw_dict(line, cols) ==
    [name \in {cols[i].name : i \in 1..Len(cols)} |->
        extract(cols[Max({i \in 1..Len(cols) : cols[i].name = name})], line)]

parse_singleline_row(line, cols) ==
    rekey_dict(raw_dict(line, cols), MAP_RAW_COLUMNS_TO_STANDARD_COLUMNS)

\* parse_multiline_row leaves the end of the second-to-last column as it was.
parse_multiline_row_keep_end(line1, line2, cols) ==
    LET singleline_row == line1 \o <<" ">> \o strip(line2)
        n == Len(cols)
    IN  IF n < 2
        THEN [err |-> "IndexError", row |-> <<>>]
        ELSE LET custom_columns ==
                     [cols EXCEPT ![n].start = Len(line1) + 1]
             IN  parse_singleline_row(singleline_row, custom_columns)

\* parse_multiline_row; custom_columns[-2] raises IndexError for fewer than
\* two columns.
parse_multiline_row(line1, line2, cols) ==
    LET singleline_row == line1 \o <<" ">> \o strip(line2)
        n == Len(cols)
    IN  IF n < 2
        THEN [err |-> "IndexError", row |-> <<>>]
        ELSE LET custom_columns ==
                     [cols EXCEPT ![n - 1].end = Some(Len(line1)),
                                  ![n].start = Len(line1) + 1]
             IN  parse_singleline_row(singleline_row, custom_columns)

\* One turn of the loop of build_net_use_table_from_parts: the row added for
\* body_lines[i], if any.  added is FALSE for a line that starts no row.
loop_body(cols, body_lines, i) ==
    LET this_row == body_lines[i]
        next_row == IF i < Len(body_lines) THEN body_lines[i + 1] ELSE <<>>
    IN  IF ~startswith(this_row, <<" ">>)
        THEN IF startswith(next_row, <<" ">>)
             THEN [added |-> TRUE, res |-> parse_multiline_row(this_row, next_row, cols)]
             ELSE [added |-> TRUE, res |-> parse_singleline_row(this_row, cols)]
        ELSE [added |-> FALSE, res |-> [err |-> "none", row |-> <<>>]]

\* build_net_use_table_from_parts: the rows in order, or the first error raised
build_net_use_table_from_parts(cols, body_lines) ==
    LET at == {i \in 1..Len(body_lines) : loop_body(cols, body_lines, i).added}
        failed == {i \in at : loop_body(cols, body_lines, i).res.err # "none"}
        RECURSIVE collect(_)
        collect(i) ==
            IF i > Len(body_lines) THEN <<>>
            ELSE (IF i \in at THEN <<loop_body(cols, body_lines, i).res.row>> ELSE <<>>)
                 \o collect(i + 1)
    IN  IF failed # {}
        THEN [outcome |-> loop_body(cols, body_lines, Min(failed)).res.err, rows |-> <<>>]
        ELSE [outcome |-> "table", rows |-> collect(1)]

\* The lines parse_populated_net_use_table works on
lines_of(str) ==
    LET raw == split_on(str, "\n")
    IN  [i \in 1..Len(raw) |-> rstrip(raw[i])]

parse_populated_net_use_table(str) ==
    LET lines == lines_of(str)
        cols == get_columns(lines)
    IN  IF cols.err # "none"
        THEN [outcome |-> cols.err, rows |-> <<>>, columns |-> <<>>]
        ELSE LET t == build_net_use_table_from_parts(cols.columns, get_body(lines))
             IN  [outcome |-> t.outcome, rows |-> t.rows, columns |-> cols.columns]

parse_net_use_table(str) ==
    IF contains(str, EMPTY_TABLE_INDICATOR)
    THEN [outcome |-> "table", rows |-> <<>>, columns |-> <<>>]
    ELSE parse_populated_net_use_table(str)

(***************************************************************************)
(* The texts handed to parse_net_use_table.                                *)
(***************************************************************************)
HeaderLine == <<"S", "t", "a", "t", "u", "s", " ", " ", " ", " ", " ", " ", " ", "L", "o", "c", "a", "l", " ", " ", " ", " ", " ", "R", "e", "m", "o", "t", "e">>
SeparatorLine == <<"-", "-", "-", "-", "-", "-", "-", "-", "-", "-", "-", "-", "-", "-", "-", "-", "-", "-", "-", "-", "-", "-", "-", "-", "-", "-", "-", "-", "-">>
RowLine == <<"O", "K", " ", " ", " ", " ", " ", " ", " ", " ", " ", " ", " ", "Z", ":", " ", " ", " ", " ", " ", " ", " ", " ", "\\", "\\", "a", "\\", "s", "h", "a", "r", "e">>
ContinuationLine == <<" ", " ", " ", "M", "i", "c", "r", "o", "s", "o", "f", "t", " ", "W", "i", "n", "d", "o", "w", "s", " ", "N", "e", "t", "w", "o", "r", "k">>
BannerLine == <<"N", "e", "w", " ", "c", "o", "n", "n", "e", "c", "t", "i", "o", "n", "s", " ", "w", "i", "l", "l", " ", "b", "e", " ", "r", "e", "m", "e", "m", "b", "e", "r", "e", "d", ".">>

\* Lines of which every sequence of at most MaxLines lines is a text
LinePool ==
    { HeaderLine, SeparatorLine, RowLine, ContinuationLine,
      BannerLine,
      <<>>,
      <<"D", "i", "s", "c", "o", "n", "n", "e", "c", "t", "e", "d", " ", "Y", ":", " ", " ", " ", " ", " ", " ", " ", " ", "\\", "\\", "b", "\\", "I", "P", "C", "$", " ", " ">>,
      <<"\t", "U", "n", "a", "v", "a", "i", "l", "a", "b", "l", "e">>,
      LAST_TABLE_LINE,
      EMPTY_TABLE_INDICATOR }

FreeTexts == {Join(ls, <<"\n">>) : ls \in SeqsOf(LinePool, 0, MaxLines)}

\* Tables as NET USE prints them, under several headings: a heading, the
\* separator, a row of one or two lines, perhaps a second row, the terminator
Headers ==
    { HeaderLine,
      <<"S", "t", "a", "t", "u", "s", " ", " ", " ", " ", " ", " ", " ", "L", "o", "c", "a", "l", " ", " ", " ", " ", " ", "R", "e", "m", "o", "t", "e", " ", " ", " ", " ", " ", " ", " ", " ", " ", " ", " ", " ", " ", " ", " ", " ", " ", " ", " ", " ", "N", "e", "t", "w", "o", "r", "k">>,
      <<"L", "o", "c", "a", "l", " ", " ", " ", " ", " ", "R", "e", "m", "o", "t", "e", " ", " ", " ", " ", " ", " ", " ", " ", " ", " ", " ", " ", " ", " ", " ", "S", "t", "a", "t", "u", "s">>,
      <<"L", "o", "c", "a", "l", " ", "L", "o", "c", "a", "l", " ", "R", "e", "m", "o", "t", "e", " ", "S", "t", "a", "t", "u", "s">>,
      <<"S", "t", "a", "t", "u", "s", " ", " ", " ", " ", " ", " ", " ", "L", "o", "c", "a", "l">>,
      <<"R", "e", "m", "o", "t", "e">> }

FirstLines ==
    { RowLine,
      <<"O", "K", " ", " ", " ", " ", " ", " ", " ", " ", " ", " ", " ", "Z", ":", " ", " ", " ", " ", " ", " ", " ", " ", "\\", "\\", "a", "\\", "a", "\\", "v", "e", "r", "y", "\\", "l", "o", "n", "g", "\\", "p", "a", "t", "h", "\\", "t", "o", "\\", "a", "\\", "s", "h", "a", "r", "e">>,
      <<"O", "K">> }

SecondLines ==
    { <<>>,
      <<ContinuationLine>>,
      <<<<" ", " ", " ", " ", " ", " ", " ", " ", " ", " ", " ", " ", " ", " ", " ", " ", " ", " ", " ", " ", " ", " ", " ", " ", " ", " ", " ", " ", " ", " ", " ", " ", " ", " ", " ", " ", " ", " ", " ", " ", " ", " ", " ", " ", " ", " ", " ", " ", " ", " ", "M", "i", "c", "r", "o", "s", "o", "f", "t", " ", "W", "i", "n", "d", "o", "w", "s", " ", "N", "e", "t", "w", "o", "r", "k">>>>,
      <<<<"D", "i", "s", "c", "o", "n", "n", "e", "c", "t", "e", "d", " ", "Y", ":", " ", " ", " ", " ", " ", " ", " ", " ", "\\", "\\", "b", "\\", "I", "P", "C", "$", " ", " ">>>>,
      <<ContinuationLine, <<"U", "n", "a", "v", "a", "i", "l", "a", "b", "l", "e", " ", " ", " ", " ", " ", " ", " ", " ", " ", " ", " ", " ", "\\", "\\", "c">>>> }

TableTexts ==
    {Join(<<h, SeparatorLine, r>> \o more \o <<LAST_TABLE_LINE, <<>>>>, <<"\n">>) :
        h \in Headers, r \in FirstLines, more \in SecondLines}

Texts == FreeTexts \union TableTexts

ParseInit ==
    /\ string \in Texts
    /\ pc = "start"
    /\ columns = <<>>
    /\ outcome = "none"
    /\ rows = <<>>
    /\ called = "__init__"
    /\ query = NoQuery
    /\ matching = <<>>

\* A call of parse_net_use_table(string)
ParseNetUseTable ==
    /\ pc = "start"
    /\ LET t == parse_net_use_table(string)
       IN  /\ outcome' = t.outcome
           /\ rows' = t.rows
           /\ columns' = t.columns
    /\ pc' = "done"
    /\ UNCHANGED <<string, called, query, matching, unc_vars>>



(***************************************************************************)
(* unc_directory: the address functions.  Their code is not among the      *)
(* sources; they are modelled from the specification and from the tests of *)
(* test/test_unc_directory.py.                                             *)
(***************************************************************************)
UncCredentials(username, password) == [username |-> username, password |-> password]

UncDirectory(path, username, password) ==
    [path |-> path, username |-> username, password |-> password]

\* UncDirectory.get_normalized_path: lower-case the path, strip the trailing
\* path separators, then cut off a trailing \ipc$.
get_normalized_path(path) ==
    LET p == rstrip_chars(lower(path), {"\\"})
    IN  IF endswith(p, IPC) THEN SubSeq(p, 1, Len(p) - Len(IPC)) ELSE p

\* The offset of the last occurrence of sub in s at or before offset i, or -1
RECURSIVE rfind(_, _, _)
rfind(s, sub, i) ==
    IF i < 0 THEN -1
    ELSE IF i + Len(sub) <= Len(s) /\ SubSeq(s, i + 1, i + Len(sub)) = sub THEN i
    ELSE rfind(s, sub, i - 1)

\* The offset of the first occurrence of sub in s at or after offset i, or -1
RECURSIVE find(_, _, _)
find(s, sub, i) ==
    IF i + Len(sub) > Len(s) THEN -1
    ELSE IF SubSeq(s, i + 1, i + Len(sub)) = sub THEN i
    ELSE find(s, sub, i + 1)

\* get_creds_from_string splits on the last colon instead of the first.
get_creds_from_string_last_colon(str) ==
    LET at == rfind(str, <<":">>, Len(str))
        username == IF at < 0 THEN str ELSE SubSeq(str, 1, at)
        password == IF at < 0 THEN None ELSE Some(SubSeq(str, at + 2, Len(str)))
    IN  UncCredentials(IF username = <<>> THEN None ELSE Some(username), password)

\* get_creds_from_string: the username is the text before the first colon and
\* the password the text after it; the tests give None for an empty username
\* (':pass' is UncCredentials(None, 'pass')).
get_creds_from_string(str) ==
    LET at == find(str, <<":">>, 0)
        username == IF at < 0 THEN str ELSE SubSeq(str, 1, at)
        password == IF at < 0 THEN None ELSE Some(SubSeq(str, at + 2, Len(str)))
    IN  UncCredentials(IF username = <<>> THEN None ELSE Some(username), password)

UNC_PREFIX == <<"\\", "\\">>
AT_UNC_PREFIX == <<"@">> \o UNC_PREFIX

\* get_unc_directory_from_string splits at the first '@' before the prefix.
get_unc_directory_from_string_first(str) ==
    LET at == find(str, AT_UNC_PREFIX, 0)
    IN  IF at < 0 THEN UncDirectory(str, None, None)
        ELSE LET c == get_creds_from_string(SubSeq(str, 1, at))
             IN  UncDirectory(SubSeq(str, at + 2, Len(str)), c.username, c.password)

\* get_unc_directory_from_string: the string is split at the last '@' that
\* the UNC prefix follows.
get_unc_directory_from_string(str) ==
    LET at == rfind(str, AT_UNC_PREFIX, Len(str))
    IN  IF at < 0 THEN UncDirectory(str, None, None)
        ELSE LET c == get_creds_from_string(SubSeq(str, 1, at))
             IN  UncDirectory(SubSeq(str, at + 2, Len(str)), c.username, c.password)

\* The cases of test_get_normalized_path: <<path, normalized path>>
test_get_normalized_path ==
    { <<<<"\\", "\\", "a", "b", "c">>, <<"\\", "\\", "a", "b", "c">>>>,
      <<<<"\\", "\\", "A", "B", "C">>, <<"\\", "\\", "a", "b", "c">>>>,
      <<<<"\\", "\\", "a", "b", "c", "\\", "d", "e", "f">>, <<"\\", "\\", "a", "b", "c", "\\", "d", "e", "f">>>>,
      <<<<"\\", "\\", "a", "b", "c", "\\", "D", "E", "F">>, <<"\\", "\\", "a", "b", "c", "\\", "d", "e", "f">>>>,
      <<<<"\\", "\\", "a", "b", "c", "\\", "d", "e", "f", "\\", "\\">>, <<"\\", "\\", "a", "b", "c", "\\", "d", "e", "f">>>>,
      <<<<"\\", "\\", "a", "b", "c", "\\", "I", "P", "C", "$">>, <<"\\", "\\", "a", "b", "c">>>>,
      <<<<"\\", "\\", "a", "b", "c", "\\", "i", "p", "c", "$">>, <<"\\", "\\", "a", "b", "c">>>> }

\* The cases of test_get_creds_from_string: <<string, credentials>>
test_get_creds_from_string ==
    { <<<<>>, UncCredentials(None, None)>>,
      <<<<"u", "s", "e", "r">>, UncCredentials(Some(<<"u", "s", "e", "r">>), None)>>,
      <<<<":", "\"", "\"">>, UncCredentials(None, Some(<<"\"", "\"">>))>>,
      <<<<":", ":">>, UncCredentials(None, Some(<<":">>))>>,
      <<<<":", "p", "a", "s", "s">>, UncCredentials(None, Some(<<"p", "a", "s", "s">>))>>,
      <<<<"u", "s", "e", "r", ":">>, UncCredentials(Some(<<"u", "s", "e", "r">>), Some(<<>>))>>,
      <<<<"u", "s", "e", "r", ":", "p", "a", "s", "s">>, UncCredentials(Some(<<"u", "s", "e", "r">>), Some(<<"p", "a", "s", "s">>))>>,
      <<<<"u", "s", "e", "r", ":", ":">>, UncCredentials(Some(<<"u", "s", "e", "r">>), Some(<<":">>))>> }

\* The cases of test_get_unc_directory_from_string: <<string, directory>>
test_get_unc_directory_from_string ==
    { <<<<"\\", "\\", "p", "a", "t", "h">>, UncDirectory(<<"\\", "\\", "p", "a", "t", "h">>, None, None)>>,
      <<<<"\\", "\\", "p", "a", "t", "h", "\\", "s", "u", "b">>, UncDirectory(<<"\\", "\\", "p", "a", "t", "h", "\\", "s", "u", "b">>, None, None)>>,
      <<<<"u", "s", "e", "r", "@", "\\", "\\", "p", "a", "t", "h">>, UncDirectory(<<"\\", "\\", "p", "a", "t", "h">>, Some(<<"u", "s", "e", "r">>), None)>>,
      <<<<":", "p", "a", "s", "s", "@", "\\", "\\", "p", "a", "t", "h">>, UncDirectory(<<"\\", "\\", "p", "a", "t", "h">>, None, Some(<<"p", "a", "s", "s">>))>>,
      <<<<":", ":", "@", "\\", "\\", "@", "\\", "\\", "p", "a", "t", "h">>, UncDirectory(<<"\\", "\\", "p", "a", "t", "h">>, None, Some(<<":", "@", "\\", "\\">>))>>,
      <<<<"u", "s", "e", "r", ":", "p", "a", "s", "s", "@", "\\", "\\", "p", "a", "t", "h">>,
        UncDirectory(<<"\\", "\\", "p", "a", "t", "h">>, Some(<<"u", "s", "e", "r">>), Some(<<"p", "a", "s", "s">>))>>,
      <<<<"u", "s", "e", "r", ":", ":", "@", "\\", "\\", "@", "\\", "\\", "p", "a", "t", "h">>,
        UncDirectory(<<"\\", "\\", "p", "a", "t", "h">>, Some(<<"u", "s", "e", "r">>), Some(<<":", "@", "\\", "\\">>))>> }

\* The strings handed to the address functions: the strings of the tests and
\* every concatenation of at most MaxChunks of these pieces
Chunks == {<<"u">>, <<"P">>, <<":">>, <<"@">>, <<"\\">>, <<"\\", "\\">>, <<"\\", "i", "p", "c", "$">>, <<"\\", "I", "P", "C", "$">>}

UncStrings ==
    {Concat(cs) : cs \in SeqsOf(Chunks, 0, MaxChunks)}
        \union {t[1] : t \in test_get_normalized_path}
        \union {t[1] : t \in test_get_creds_from_string}
        \union {t[1] : t \in test_get_unc_directory_from_string}

NoCredentials == UncCredentials(None, None)
NoDirectory == UncDirectory(<<>>, None, None)

UncInit ==
    /\ unc_string \in UncStrings
    /\ upc = "start"
    /\ creds = NoCredentials
    /\ directory = NoDirectory
    /\ normalized = <<>>

\* A call of get_creds_from_string(unc_string)
GetCredsFromString ==
    /\ upc = "start"
    /\ creds' = get_creds_from_string(unc_string)
    /\ upc' = "creds"
    /\ UNCHANGED <<unc_string, directory, normalized, table_vars, parse_vars>>

\* A call of get_unc_directory_from_string(unc_string)
GetUncDirectoryFromString ==
    /\ upc = "start"
    /\ directory' = get_unc_directory_from_string(unc_string)
    /\ upc' = "directory"
    /\ UNCHANGED <<unc_string, creds, normalized, table_vars, parse_vars>>

\* A call of get_normalized_path: on UncDirectory(unc_string) first, then on
\* the directory of the path the call before returned
GetNormalizedPath ==
    /\ upc \in {"start", "normalized"}
    /\ Len(normalized) < 2
    /\ normalized' = Append(normalized,
                            get_normalized_path(IF normalized = <<>> THEN unc_string
                                                ELSE normalized[Len(normalized)]))
    /\ upc' = "normalized"
    /\ UNCHANGED <<unc_string, creds, directory, table_vars, parse_vars>>

\* No call of parse_net_use_table, and no call of an address function
ParseIdle ==
    /\ string = <<>>
    /\ pc = "idle"
    /\ columns = <<>>
    /\ outcome = "none"

UncIdle ==
    /\ unc_string = <<>>
    /\ upc = "idle"
    /\ creds = NoCredentials
    /\ directory = NoDirectory
    /\ normalized = <<>>

\* The parser: a text, and the call of parse_net_use_table on it
Init == ParseInit /\ UncIdle

Next == ParseNetUseTable

Spec == Init /\ [][Next]_vars

\* The table object: rows are added to it and it is searched
TableNext == AddRow \/ GetMatchingRows

TableSpecInit == TableInit /\ ParseIdle /\ UncIdle

TableSpec == TableSpecInit /\ [][TableNext]_vars

\* The address functions, each called on a string
UncNext == GetCredsFromString \/ GetUncDirectoryFromString \/ GetNormalizedPath

UncSpecInit == UncInit /\ TableInit /\ ParseIdle

UncSpec == UncSpecInit /\ [][UncNext]_vars

\* The functions give what the tests expect of them.
TestsPass ==
    /\ \A t \in test_get_normalized_path : get_normalized_path(t[1]) = t[2]
    /\ \A t \in test_get_creds_from_string : get_creds_from_string(t[1]) = t[2]
    /\ \A t \in test_get_unc_directory_from_string :
          get_unc_directory_from_string(t[1]) = t[2]

(***************************************************************************)
(* What the claims are stated over.                                        *)
(***************************************************************************)
StandardKeys == {"local", "remote", "status"}

\* The members of a set of numbers in increasing order
RECURSIVE Sorted(_)
Sorted(S) == IF S = {} THEN <<>> ELSE <<Min(S)>> \o Sorted(S \ {Min(S)})

Lines == lines_of(string)
Populated == pc = "done" /\ ~contains(string, EMPTY_TABLE_INDICATOR)
Separators == {i \in 1..Len(Lines) : is_line_separator(Lines[i])}
\* The lines before the first separator line: all of them when there is none
BeforeSeparator ==
    IF Separators = {} THEN 1..Len(Lines) ELSE 1..(Min(Separators) - 1)
\* The lines after the first separator line
AfterSeparator ==
    IF Separators = {} THEN {} ELSE (Min(Separators) + 1)..Len(Lines)

(***************************************************************************)
(* C1: get_matching_rows with a remote criterion.                          *)
(***************************************************************************)
\* The remote path as the claim normalizes it: lower-cased, and cut to the
\* host portion before a trailing \ipc$.
HostPortion(path) ==
    LET p == lower(path)
    IN  IF endswith(p, IPC) THEN SubSeq(p, 1, Len(p) - Len(IPC)) ELSE p

\* C1: with a remote criterion, get_matching_rows returns the rows whose
\* remote equals the criterion once both are lower-cased and cut to the host
\* portion before a trailing \ipc$ (and that match the other criteria).
C1_RemoteMatchesHostPortion ==
    (called = "get_matching_rows" /\ Truthy(query.remote)) =>
        LET Expected(row) ==
                /\ HostPortion(query.remote[1]) = HostPortion(row.remote)
                /\ row_matches(row, query.local, None, query.status)
        IN  matching = SelectSeq(rows, Expected)

(***************************************************************************)
(* C3: get_matching_rows, the local and the status criterion.              *)
(***************************************************************************)
OneColonStripped(s) ==
    IF s # <<>> /\ s[Len(s)] = ":" THEN SubSeq(s, 1, Len(s) - 1) ELSE s

AllColonsStripped(s) ==
    LET keep == {i \in 1..Len(s) : s[i] # ":"}
    IN  IF keep = {} THEN <<>> ELSE SubSeq(s, 1, Max(keep))

\* C3 as claimed: the rows returned are, in table order, those that match
\* every criterion that is not None; local matches when the values are equal
\* ignoring case after one trailing colon is stripped from each.
C3_AsClaimed ==
    called = "get_matching_rows" =>
        LET Expected(row) ==
                /\ query.local # None =>
                       lower(OneColonStripped(query.local[1]))
                           = lower(OneColonStripped(row.local))
                /\ query.remote # None =>
                       remote_paths_equal(query.remote[1], row.remote)
                /\ query.status # None => lower(query.status[1]) = lower(row.status)
        IN  matching = SelectSeq(rows, Expected)

\* C3 as amended: the rows returned are, in table order, those that match
\* every criterion that is neither None nor the empty string; local matches
\* when the values are equal ignoring case after all trailing colons are
\* stripped from each, status when the values are equal ignoring case.
C3_MatchingRows ==
    called = "get_matching_rows" =>
        LET Given(c) == c # None /\ c[1] # <<>>
            Expected(row) ==
                /\ Given(query.local) =>
                       lower(AllColonsStripped(query.local[1]))
                           = lower(AllColonsStripped(row.local))
                /\ Given(query.remote) =>
                       remote_paths_equal(query.remote[1], row.remote)
                /\ Given(query.status) => lower(query.status[1]) = lower(row.status)
        IN  matching = SelectSeq(rows, Expected)

\* 'Z::' and 'ok' select the second of two rows, whose local is 'Z:' and
\* whose status is 'OK'.
C3_Witness ==
    /\ called = "get_matching_rows"
    /\ Len(rows) = 2
    /\ query.local = Some(<<"Z", ":", ":">>)
    /\ query.status = Some(<<"o", "k">>)
    /\ rows[1].local = <<>>
    /\ rows[2].local = <<"Z", ":">>
    /\ matching = <<rows[2]>>

(***************************************************************************)
(* C2: a row of two lines.                                                 *)
(***************************************************************************)
\* The text is a heading line, a separator line, a row line, a continuation
\* line that begins with a space, and the terminator line.
TwoLineTable ==
    /\ Populated
    /\ \/ Len(Lines) = 5
       \/ Len(Lines) = 6 /\ Lines[6] = <<>>
    /\ is_heading(Lines[1])
    /\ is_line_separator(Lines[2])
    /\ Lines[3] # <<>> /\ Lines[3] # LAST_TABLE_LINE /\ Lines[3][1] \notin Whitespace
    /\ startswith(Lines[4], <<" ">>)
    /\ Lines[5] = LAST_TABLE_LINE

\* The heading names at least two columns, Local, Remote and Status among them.
FullHeading ==
    /\ Len(columns) >= 2
    /\ \A raw \in DOMAIN MAP_RAW_COLUMNS_TO_STANDARD_COLUMNS :
          \E i \in 1..Len(columns) : columns[i].name = raw

\* The column that gives the row its value for a raw title: the last of that name
ColumnOf(raw) == Max({i \in 1..Len(columns) : columns[i].name = raw})

\* C2 as claimed, for a first line that reaches into the last column: the
\* table has one row; its last column holds the first line's content from
\* the last column's start, a space and the stripped continuation line,
\* trimmed; every other column holds what the first line alone gives it.
C2_AsClaimed ==
    (TwoLineTable /\ FullHeading /\ Len(Lines[3]) > columns[Len(columns)].start) =>
        /\ outcome = "table"
        /\ Len(rows) = 1
        /\ \A raw \in DOMAIN MAP_RAW_COLUMNS_TO_STANDARD_COLUMNS :
              LET j == ColumnOf(raw)
                  key == MAP_RAW_COLUMNS_TO_STANDARD_COLUMNS[raw]
              IN  rows[1][key] =
                     IF j = Len(columns)
                     THEN strip(Slice(Lines[3], columns[j].start, None)
                                \o <<" ">> \o strip(Lines[4]))
                     ELSE extract(columns[j], Lines[3])

\* C2 as amended: the table has one row; its last column holds the stripped
\* continuation line, its second-to-last column the first line from that
\* column's start to the line's end, trimmed, and every earlier column the
\* text between its start and its end, trimmed, of the first line followed
\* by a space and the stripped continuation line.
C2_TwoLineRow ==
    (TwoLineTable /\ FullHeading) =>
        /\ outcome = "table"
        /\ Len(rows) = 1
        /\ \A raw \in DOMAIN MAP_RAW_COLUMNS_TO_STANDARD_COLUMNS :
              LET j == ColumnOf(raw)
                  key == MAP_RAW_COLUMNS_TO_STANDARD_COLUMNS[raw]
              IN  rows[1][key] =
                     IF j = Len(columns) THEN strip(Lines[4])
                     ELSE IF j = Len(columns) - 1
                     THEN strip(Slice(Lines[3], columns[j].start, None))
                     ELSE extract(columns[j], Lines[3] \o <<" ">> \o strip(Lines[4]))

\* Under the heading Status, Local, Remote the row's remote is the
\* continuation line and its local runs to the end of the first line.
C2_Witness ==
    /\ TwoLineTable
    /\ FullHeading
    /\ Lines[1] = HeaderLine
    /\ Lines[3] = RowLine
    /\ Len(rows) = 1
    /\ rows[1].status = <<"O", "K">>
    /\ rows[1].local = <<"Z", ":", " ", " ", " ", " ", " ", " ", " ", " ", "\\", "\\", "a", "\\", "s", "h", "a", "r", "e">>
    /\ rows[1].remote = <<"M", "i", "c", "r", "o", "s", "o", "f", "t", " ", "W", "i", "n", "d", "o", "w", "s", " ", "N", "e", "t", "w", "o", "r", "k">>

(***************************************************************************)
(* C4: the keys of a row.                                                  *)
(***************************************************************************)
\* C4: every row of a table parse_net_use_table returns has exactly the keys
\* local, remote and status.
C4_RowSchema ==
    (pc = "done" /\ outcome = "table") =>
        \A i \in 1..Len(rows) : DOMAIN rows[i] = StandardKeys

\* A table of two rows under a heading of four columns: a short first line
\* with a continuation, and a second row whose local is empty.
C4_Witness ==
    /\ pc = "done"
    /\ outcome = "table"
    /\ Len(columns) = 4
    /\ columns[4].name = <<"N", "e", "t", "w", "o", "r", "k">>
    /\ Len(rows) = 2
    /\ Lines[3] = <<"O", "K">>
    /\ startswith(Lines[4], <<" ">>)
    /\ rows[2].status = <<"U", "n", "a", "v", "a", "i", "l", "a", "b", "l", "e">>
    /\ rows[2].local = <<>>
    /\ rows[2].remote = <<"\\", "\\", "c">>

(***************************************************************************)
(* C8: texts without a separator line or a heading line.                   *)
(***************************************************************************)
\* C8: parse_net_use_table fails with a FormatError on a text without the
\* empty-table sentinel that has no separator line, or no heading line before
\* its first separator line.
C8_FormatError ==
    (Populated /\ (Separators = {} \/ \A i \in BeforeSeparator : ~is_heading(Lines[i])))
        => outcome = "FormatError"

(***************************************************************************)
(* C9: the extent of the body.                                             *)
(***************************************************************************)
\* Where the body ends as claimed: at the first terminator line after the
\* separator line, or at the end of the text
ClaimedEnd ==
    LET last == {i \in AfterSeparator : Lines[i] = LAST_TABLE_LINE}
    IN  IF last = {} THEN Len(Lines) + 1 ELSE Min(last)

\* Where the body ends: at the first line after the separator line that is
\* empty or the terminator line, or at the end of the text
BodyEnd ==
    LET last == {i \in AfterSeparator : Lines[i] = <<>> \/ Lines[i] = LAST_TABLE_LINE}
    IN  IF last = {} THEN Len(Lines) + 1 ELSE Min(last)

RowOfLine(i) ==
    IF i + 1 < BodyEnd /\ startswith(Lines[i + 1], <<" ">>)
    THEN parse_multiline_row(Lines[i], Lines[i + 1], columns).row
    ELSE parse_singleline_row(Lines[i], columns).row

C10_AsClaimed ==
    LET alpha(x) == LET t == lstrip_chars(x, {" "}) IN t # <<>> /\ isalpha(t[1])
        found == {i \in BeforeSeparator : alpha(Lines[i])}
    IN  (Populated /\ found # {}) =>
            /\ outcome # "FormatError"
            /\ columns = columns_of(Lines[Max(found)])

\* C10 as amended: the heading is the last line before the first separator
\* line whose first character is alphabetic; a line that begins with a space
\* is passed over.
C10_HeadingLine ==
    LET found == {i \in BeforeSeparator : Lines[i] # <<>> /\ isalpha(Lines[i][1])}
    IN  (Populated /\ found # {}) =>
            /\ outcome # "FormatError"
            /\ columns = columns_of(Lines[Max(found)])

\* A banner line, the heading, an indented line and the separator: the
\* columns are those of the heading.
C10_Witness ==
    /\ Populated
    /\ Len(Lines) = 4
    /\ Lines[1] = BannerLine
    /\ Lines[2] = HeaderLine
    /\ Lines[3] = ContinuationLine
    /\ is_line_separator(Lines[4])
    /\ Len(columns) = 3
    /\ columns[2] = NetUseColumn(<<"L", "o", "c", "a", "l">>, 13, Some(22))

(***************************************************************************)
(* C5: get_normalized_path twice.                                          *)
(***************************************************************************)
\* C5: get_normalized_path is idempotent: normalizing a normalized path
\* gives the same path.
C5_Idempotent ==
    Len(normalized) = 2 => normalized[2] = normalized[1]

(***************************************************************************)
(* C6: get_unc_directory_from_string.                                      *)
(***************************************************************************)
\* The 1-based places of the '@'s of unc_string that the UNC prefix follows
SplitPoints ==
    {i \in 1..(Len(unc_string) - 2) :
        /\ unc_string[i] = "@"
        /\ unc_string[i + 1] = "\\"
        /\ unc_string[i + 2] = "\\"}

\* C6: the string is split at the rightmost '@' that the UNC prefix follows:
\* the path is all from the prefix on, the credentials are those of the text
\* before that '@'; without such an '@' the whole string is the path and
\* there are no credentials.
C6_SplitAtRightmost ==
    upc = "directory" =>
        IF SplitPoints = {}
        THEN directory = UncDirectory(unc_string, None, None)
        ELSE LET at == Max(SplitPoints)
                 c == get_creds_from_string(SubSeq(unc_string, 1, at - 1))
             IN  /\ directory.path = SubSeq(unc_string, at + 1, Len(unc_string))
                 /\ directory.username = c.username
                 /\ directory.password = c.password

\* 'user::@\\@\\path': the password holds an '@' that the prefix follows.
C6_Witness ==
    /\ upc = "directory"
    /\ unc_string = <<"u", "s", "e", "r", ":", ":", "@", "\\", "\\", "@", "\\", "\\", "p", "a", "t", "h">>
    /\ Cardinality(SplitPoints) = 2
    /\ directory = UncDirectory(<<"\\", "\\", "p", "a", "t", "h">>, Some(<<"u", "s", "e", "r">>), Some(<<":", "@", "\\", "\\">>))

(***************************************************************************)
(* C7: get_creds_from_string.                                              *)
(***************************************************************************)
Colons == {i \in 1..Len(unc_string) : unc_string[i] = ":"}

\* C7 as claimed: an empty string gives no username and no password;
\* otherwise the username is the text before the first colon, an empty text
\* before a colon being the empty username, and the password is all after
\* the first colon, or None without a colon.
C7_AsClaimed ==
    upc = "creds" =>
        IF unc_string = <<>> THEN creds = UncCredentials(None, None)
        ELSE IF Colons = {} THEN creds = UncCredentials(Some(unc_string), None)
        ELSE creds = UncCredentials(
                         Some(SubSeq(unc_string, 1, Min(Colons) - 1)),
                         Some(SubSeq(unc_string, Min(Colons) + 1, Len(unc_string))))

\* C7 as amended: as claimed, but an empty text before the first colon gives
\* no username (None), not the empty username.
C7_Credentials ==
    upc = "creds" =>
        IF unc_string = <<>> THEN creds = UncCredentials(None, None)
        ELSE IF Colons = {} THEN creds = UncCredentials(Some(unc_string), None)
        ELSE creds = UncCredentials(
                         IF Min(Colons) = 1 THEN None
                         ELSE Some(SubSeq(unc_string, 1, Min(Colons) - 1)),
                         Some(SubSeq(unc_string, Min(Colons) + 1, Len(unc_string))))

\* '::' has no username, and the password ':'.
C7_Witness ==
    /\ upc = "creds"
    /\ unc_string = <<":", ":">>
    /\ creds = UncCredentials(None, Some(<<":">>))

=============================================================================
